---------------------------- MODULE Spec2Model ----------------------------
(***************************************************************************)
(* A model of the LDAP login flow of pkg/auth/providers/ldap/ldap_client.go *)
(* (loginUser, getPrincipalsFromSearchResult, searchLdap), and of the       *)
(* lookups getPrincipal, searchUser and searchGroup.                       *)
(*                                                                         *)
(* One call (of loginUser or of one of the lookups) runs on one connection.*)
(* A call of loginUser is followed through the variable pc, a call of a    *)
(* lookup through opc.  Every action is the code                           *)
(* between two round trips on the connection, together with the round trip *)
(* that starts it.  The connection's answers (bind results, search results)*)
(* are the inputs, drawn from small sets.  The directory does not change   *)
(* during a call: the part of it a query reads is chosen when the query is *)
(* first issued and kept in dirByUid / dirByUserDN / dirParents.           *)
(*                                                                         *)
(* Group entries are identified by their DN, a number in Groups; the user  *)
(* entry's DN is UserDN.  The provider is one of the two that use this     *)
(* file for a password login (openldap, freeipa), for which                *)
(* samlSearchProvider() is false, so a principal's external id is its DN.  *)
(***************************************************************************)
EXTENDS Integers, Sequences, FiniteSets, TLC

\* ------------------------------------------------------------------ bounds
\* Number of group entries in the directory.
NGroups == 3
\* Largest number of batches the forward-membership list is split into.
MaxBatches == 3
\* Largest number of entries the user search returns.
MaxEntries == 2

\* ------------------------------------------------------- program constants
\* for i := 0; i < len(userMemberAttribute); i += 50
BatchSize == 50

Groups == 1..NGroups
UserDN == 0

Min(a, b) == IF a < b THEN a ELSE b

\* ------------------------------------------------------------------ errors
NoError == "nil"
MissingRequired  == "MissingRequired"
InvalidOption    == "InvalidOption"
Unauthorized     == "Unauthorized"
ServerError      == "ServerError"
PermissionDenied == "PermissionDenied"
\* an error that is no httperror.APIError (fmt.Errorf, a wrapped ldap error)
PlainError       == "error"
NotFound         == "NotFound"

\* -------------------------------------------------------------- principals
\* v3.Principal{}: the zero value
EmptyPrincipal == [name |-> <<>>]

\* ObjectMeta.Name of a principal: scope + "://" + externalID
PrincipalName(scope, externalID) == <<scope, "://", externalID>>

\* ldap.AttributesToPrincipal for an entry of the class the scope asks for
AttributesToPrincipal(externalID, scope) ==
    [name |-> PrincipalName(scope, externalID)]

\* p.userScope and p.groupScope of the provider
UserScope(provider)  == IF provider = "openldap" THEN "openldap_user" ELSE "freeipa_user"
GroupScope(provider) == IF provider = "openldap" THEN "openldap_group" ELSE "freeipa_group"

\* ------------------------------------------------------------- sequences
RECURSIVE SortedSeq(_)
\* the entries of a search result, in the directory's order (ascending DN)
SortedSeq(S) ==
    IF S = {} THEN <<>>
    ELSE LET m == CHOOSE x \in S : \A y \in S : x <= y
         IN <<m>> \o SortedSeq(S \ {m})

Range(s) == {s[i] : i \in 1..Len(s)}

Names(ps) == [i \in 1..Len(ps) |-> ps[i].name]

NoDuplicates(s) == \A i, j \in 1..Len(s) : i # j => s[i] # s[j]

RECURSIVE FilterNotIn(_, _)
\* the elements of ps, in order, whose name is not in names
FilterNotIn(ps, names) ==
    IF ps = <<>> THEN <<>>
    ELSE IF Head(ps).name \in names THEN FilterNotIn(Tail(ps), names)
    ELSE <<Head(ps)>> \o FilterNotIn(Tail(ps), names)

\* ldap.FindNonDuplicateBetweenGroupPrincipals: a pass of the new principals
\* against the accumulated ones, appended to acc
FindNonDuplicateBetweenGroupPrincipals(newGroupPrincipals, groupPrincipals, acc) ==
    acc \o FilterNotIn(newGroupPrincipals, Range(Names(groupPrincipals)))

\* ----------------------------------------------------------------- filters
\* A filter is a sequence of tokens: "(" , ")" and "a" (an item attr=value).
RECURSIVE Depths(_, _)
\* the nesting depth after each token
Depths(f, d) ==
    IF f = <<>> THEN <<>>
    ELSE LET nd == IF Head(f) = "(" THEN d + 1
                   ELSE IF Head(f) = ")" THEN d - 1 ELSE d
         IN <<nd>> \o Depths(Tail(f), nd)

\* ldapv3.CompileFilter(f) returns no error: one parenthesised expression
CompileFilterOK(f) ==
    /\ Len(f) >= 3
    /\ f[1] = "("
    /\ LET ds == Depths(f, 0)
       IN /\ ds[Len(f)] = 0
          /\ \A i \in 1..(Len(f) - 1) : ds[i] >= 1
    /\ \A i \in 1..(Len(f) - 1) : ~(f[i] = "(" /\ f[i + 1] = ")")

LoginFilters ==
    { <<>>,
      <<"(", "a", ")">>,
      <<"(", "a">>,
      <<"a", ")">> }

\* --------------------------------------------------------------- directory
\* The forward-membership lists (memberOf values) a user entry may carry.
\* A value v names the group entry with DN v when v \in Groups and no
\* readable entry otherwise.
Asc(n) == [k \in 1..n |-> k]
\* the last value names the same group as the first
Rep(n) == [k \in 1..n |-> IF k = n THEN 1 ELSE k]

\* no value; one; a full batch; a batch and one value more, which names the
\* first group again; MaxBatches batches, the last one partial
MemberLists ==
    { Asc(0), Asc(1), Asc(BatchSize), Rep(BatchSize + 1),
      Asc((MaxBatches - 1) * BatchSize + 20) }

\* the lists the operational snapshot adds when the primary entry has none
OpMemberLists == { Asc(0), Asc(2) }

\* The values of the group-member-user attribute (a uid) of a user entry.
UidLists == { <<>>, <<"u1">>, <<"u2", "u1">> }
OpUidLists == { <<>>, <<"u1">> }

\* The member edges between groups, <<child, parent>>: the child's DN is a
\* value of the parent's membership-mapping attribute.
Ring(n)  == {<<k, (k % n) + 1>> : k \in 1..n}
Chain(n) == {<<k, k + 1>> : k \in 1..(n - 1)}
Down(n)  == {<<k + 1, k>> : k \in 1..(n - 1)}
FanIn    == {<<k, NGroups>> : k \in 1..(NGroups - 1)}
Dag      == {<<a, b>> \in Groups \X Groups : a < b}
Complete == Groups \X Groups

GroupGraphs ==
    {Ring(n) : n \in 1..NGroups}
    \cup {Chain(n) : n \in 1..NGroups}
    \cup {Down(n) : n \in 2..NGroups}
    \cup {FanIn, Dag, Complete}
    \cup {Ring(2) \cup Chain(NGroups)}

ParentsOf(graph, g) == {p \in Groups : <<g, p>> \in graph}

\* A user entry as the user search returns it.
UserEntries ==
    [ DN              : {UserDN},
      isUserClass     : BOOLEAN,
      hasPermission   : BOOLEAN,
      memberOf        : MemberLists,
      groupMemberUser : UidLists ]

\* The operational snapshot of an entry: it carries a membership attribute
\* the primary entry lacks, or nothing more than the primary entry.
OpEntries(entry) ==
    [ DN              : {entry.DN},
      memberOf        : IF entry.memberOf = <<>> THEN OpMemberLists ELSE {entry.memberOf},
      groupMemberUser : IF entry.groupMemberUser = <<>> THEN OpUidLists
                        ELSE {entry.groupMemberUser} ]

\* a second, third ... entry matching the login filter
OtherEntry(k) ==
    [ DN |-> 0 - k, isUserClass |-> TRUE, hasPermission |-> TRUE,
      memberOf |-> <<>>, groupMemberUser |-> <<>> ]

\* the results of the user search with n entries
SearchResults(n) ==
    IF n = 0 THEN { <<>> }
    ELSE { <<e>> \o [k \in 1..(n - 1) |-> OtherEntry(k)] : e \in UserEntries }

\* ------------------------------------------------------ connection answers
BindOutcomes   == {"ok", "invalidCredentials", "other"}
\* SearchWithPaging: success; an *ldapv3.Error with LDAPResultNoSuchObject;
\* an *ldapv3.Error with another code; an error that is no *ldapv3.Error
PagedOutcomes  == {"ok", "noSuchObject", "ldapError", "netError"}
SearchOutcomes == {"ok", "error"}
AccessOutcomes == {"allowed", "denied", "error"}

\* One operation on the connection: op is "bind", "search" or "searchPaged";
\* arg says which one (the identity bound, the query issued); key is what it
\* was issued for (the batch's first and last position, the uid, the DN);
\* out is the answer: for a bind the connection's answer; for a search "ok"
\* when the code goes on with the entries returned and "error" when it
\* returns an error.
Op(op, arg, out, key) == [op |-> op, arg |-> arg, out |-> out, key |-> key]

\* ------------------------------------------------------------------- state
VARIABLES
    pc,                         \* position in loginUser
    provider,                   \* p.providerName: fixes p.userScope, p.groupScope
    credentials,                \* *v3.BasicLogin
    config,                     \* *v3.LdapConfig
    log,                        \* the operations issued on lConn, in order
    result,                     \* result.Entries of the user search
    opResult,                   \* opResult.Entries of the operational search
    userPrincipal,
    groupPrincipals,
    nestedGroupPrincipals,
    groupMap,
    freeipaNonEntrydnApproach,
    userMemberAttribute,
    i,                          \* the batch loop's index
    lastSearch,                 \* what the latest searchLdap call returned
    absorbed,                   \* a paged search failed and searchLdap returned no error
    enteredStepE,               \* the branch of line 226 was taken
    access,                     \* what userMGR.CheckAccess answered, "none" before
    gret,                       \* what getPrincipalsFromSearchResult returned
    ret,                        \* what loginUser returned
    dirByUid,                   \* groups whose mapping attribute holds the uid queried
    dirByUserDN,                \* groups whose mapping attribute holds the user's DN
    dirParents,                 \* the member edges between groups
    opc,                        \* position in getPrincipal / searchUser / searchGroup
    ocall,                      \* the lookup called and its arguments
    oret                        \* what the lookup returned

vars == << pc, provider, credentials, config, log, result, opResult, userPrincipal,
           groupPrincipals, nestedGroupPrincipals, groupMap, freeipaNonEntrydnApproach,
           userMemberAttribute, i, lastSearch, absorbed, enteredStepE, access,
           gret, ret,
           dirByUid, dirByUserDN, dirParents, opc, ocall, oret >>

callVars   == << provider, credentials, config >>
resultVars == << result, opResult >>
localVars  == << userPrincipal, groupPrincipals, nestedGroupPrincipals, groupMap,
                 freeipaNonEntrydnApproach, userMemberAttribute, i >>
dirVars    == << dirByUid, dirByUserDN, dirParents >>
otherVars  == << opc, ocall, oret >>

NoCall == [op |-> "none"]
NoLookup == [returned |-> FALSE, principals |-> <<>>, err |-> NoError]
LookupReturned(ps, e) == [returned |-> TRUE, principals |-> ps, err |-> e]

NotReturned == [returned |-> FALSE, user |-> EmptyPrincipal, groups |-> <<>>, err |-> NoError]
Returned(u, g, e) == [returned |-> TRUE, user |-> u, groups |-> g, err |-> e]
NoSearch == [outcome |-> "none", principals |-> <<>>, err |-> NoError]

Configs ==
    [ UserLoginFilter              : LoginFilters,
      SearchUsingServiceAccount    : BOOLEAN,
      NestedGroupMembershipEnabled : BOOLEAN ]

Init ==
    /\ pc = "idle"
    /\ provider = "openldap"
    /\ credentials = [Password |-> ""]
    /\ config = [ UserLoginFilter |-> <<>>, SearchUsingServiceAccount |-> FALSE,
                  NestedGroupMembershipEnabled |-> FALSE ]
    /\ log = <<>>
    /\ result = <<>>
    /\ opResult = <<>>
    /\ userPrincipal = EmptyPrincipal
    /\ groupPrincipals = <<>>
    /\ nestedGroupPrincipals = <<>>
    /\ groupMap = {}
    /\ freeipaNonEntrydnApproach = FALSE
    /\ userMemberAttribute = <<>>
    /\ i = 0
    /\ lastSearch = NoSearch
    /\ absorbed = FALSE
    /\ enteredStepE = FALSE
    /\ access = "none"
    /\ gret = NotReturned
    /\ ret = NotReturned
    /\ dirByUid = {}
    /\ dirByUserDN = {}
    /\ dirParents = {}
    /\ opc = "idle"
    /\ ocall = NoCall
    /\ oret = NoLookup

\* ------------------------------------------------------------- searchLdap
\* searchLdap without the bind before the query
SearchLdapUnbound(found, scope, what, key, bindOut, searchOut) ==
    IF searchOut = "ldapError"
    THEN [ principals |-> <<>>, err |-> PlainError,
           ops |-> << Op("searchPaged", what, "error", key) >>,
           outcome |-> searchOut ]
    ELSE LET entries == IF searchOut = "ok" THEN SortedSeq(found) ELSE <<>>
         IN [ principals |-> [k \in 1..Len(entries) |->
                                 AttributesToPrincipal(entries[k], scope)],
              err |-> NoError,
              ops |-> << Op("searchPaged", what, "ok", key) >>,
              outcome |-> searchOut ]

\* searchLdap going on to the query when the bind before it failed
SearchLdapBindIgnored(found, scope, what, key, bindOut, searchOut) ==
    LET r == SearchLdapUnbound(found, scope, what, key, bindOut, searchOut)
    IN  [r EXCEPT !.ops = << Op("bind", "serviceAccount", bindOut, <<>>) >> \o @]

\* p.searchLdap(query, scope, config, lConn) for a query that the entries
\* `found` match: bindOut and searchOut are the connection's answers.
SearchLdap(found, scope, what, key, bindOut, searchOut) ==
    LET bind == Op("bind", "serviceAccount", bindOut, <<>>)
    IN  IF bindOut # "ok"
        THEN [ principals |-> <<>>, err |-> PlainError, ops |-> <<bind>>,
               outcome |-> "bindFailed" ]
        ELSE IF searchOut = "ldapError"
        THEN [ principals |-> <<>>, err |-> PlainError,
               ops |-> <<bind, Op("searchPaged", what, "error", key)>>,
               outcome |-> searchOut ]
        ELSE LET entries == IF searchOut = "ok" THEN SortedSeq(found) ELSE <<>>
             IN [ principals |-> [k \in 1..Len(entries) |->
                                     AttributesToPrincipal(entries[k], scope)],
                  err |-> NoError,
                  ops |-> <<bind, Op("searchPaged", what, "ok", key)>>,
                  outcome |-> searchOut ]

\* lines 472-477: the paged search failed and no error is returned
Absorbed(r) == r.outcome \in {"noSuchObject", "netError"}

SearchSummary(r) == [outcome |-> r.outcome, principals |-> r.principals, err |-> r.err]

\* ------------------------------------------------------ GatherParentGroups
PrincipalsOf(S, scope) ==
    LET ds == SortedSeq(S)
    IN  [k \in 1..Len(ds) |-> AttributesToPrincipal(ds[k], scope)]

RECURSIVE GatherParentGroups(_, _, _, _, _)
RECURSIVE GatherEach(_, _, _, _, _)
\* ldap.GatherParentGroups(groupPrincipal, ..., groupMap, &nestedGroupPrincipals, ...)
\* on the state st = [groupMap, nested, ops, err]; the failAt-th query of the
\* call fails (none when failAt = 0).
GatherParentGroups(groupPrincipal, scope, graph, failAt, st) ==
    IF groupPrincipal.name \in st.groupMap THEN st
    ELSE LET failed == (Len(st.ops) + 1 = failAt)
             dn == groupPrincipal.name[3]
             st1 == [st EXCEPT
                       !.groupMap = @ \cup {groupPrincipal.name},
                       !.ops = Append(@, Op("searchPaged", "parents",
                                            IF failed THEN "error" ELSE "ok", <<dn>>)),
                       !.err = IF failed THEN PlainError ELSE NoError]
         IN  IF failed THEN st1
             ELSE GatherEach(PrincipalsOf(ParentsOf(graph, dn), scope),
                             scope, graph, failAt, st1)

\* the loop over the parent groups found
GatherEach(parents, scope, graph, failAt, st) ==
    IF parents = <<>> \/ st.err # NoError THEN st
    ELSE IF Head(parents).name \in st.groupMap
    THEN GatherEach(Tail(parents), scope, graph, failAt, st)
    ELSE GatherEach(Tail(parents), scope, graph, failAt,
                    GatherParentGroups(Head(parents), scope, graph, failAt,
                                       [st EXCEPT !.nested = Append(@, Head(parents))]))

\* ------------------------------------------------------------ loginUser
\* line 226: the condition of the parent-group traversal
NestedTraversal(nestedEnabled, groupScope, fallback) ==
    (nestedEnabled /\ groupScope = "openldap_group") \/ fallback

\* the groups the batch query of userMemberAttribute[lo..hi] matches
GroupsByDN(values) == {g \in Groups : g \in values}

\* loginUser returns (principal, groups, err)
LoginReturn(u, g, e) ==
    /\ ret' = Returned(u, g, e)
    /\ pc' = "done"

\* loginUser going on to the access check without looking at the error
GetPrincipalsReturnUnchecked(u, g, e) ==
    /\ gret' = Returned(u, g, e)
    /\ pc' = "checkAccess"
    /\ UNCHANGED ret

\* getPrincipalsFromSearchResult returns (u, g, e) to loginUser, lines 99-102
GetPrincipalsReturn(u, g, e) ==
    /\ gret' = Returned(u, g, e)
    /\ IF e # NoError
       THEN LoginReturn(EmptyPrincipal, <<>>, e)
       ELSE pc' = "checkAccess" /\ UNCHANGED ret

\* the password check left out
PasswordNeverMissing(pw) == FALSE

\* line 23: credentials.Password == ""
PasswordMissing(pw) == pw = ""

\* the login filter interpolated without being compiled
FilterNeverRejected(filter) == FALSE

\* lines 32-38: a configured login filter that does not compile
FilterRejected(filter) == filter # <<>> /\ ~CompileFilterOK(filter)

\* the user search without the check for more than one entry
UserSearchFailsFirstWins(out, nEntries) == out # "ok" \/ nEntries < 1

\* lines 56-63: the user search failed, or did not find exactly one entry
UserSearchFails(out, nEntries) == out # "ok" \/ nEntries < 1 \/ nEntries > 1

\* a failed bind as the user that is no credential failure let through
BindUserErrorIgnored(out) ==
    IF out = "invalidCredentials" THEN Unauthorized ELSE NoError

\* every failed bind as the user reported as Unauthorized
BindUserErrorUnauthorized(out) == Unauthorized

\* lines 70-75: the error of a failed bind as the user
BindUserError(out) ==
    IF out = "invalidCredentials" THEN Unauthorized ELSE ServerError

\* lines 20-25: the call, and the check of the password
LoginUser ==
    /\ pc = "idle"
    /\ UNCHANGED otherVars
    /\ opc = "idle"
    /\ \E pr \in {"openldap", "freeipa"}, pw \in {"", "secret"}, c \in Configs :
          /\ provider' = pr
          /\ credentials' = [Password |-> pw]
          /\ config' = c
          /\ IF PasswordMissing(pw)
             THEN LoginReturn(EmptyPrincipal, <<>>, MissingRequired)
             ELSE pc' = "bindServiceAccount" /\ UNCHANGED ret
    /\ UNCHANGED << log, resultVars, localVars, lastSearch, absorbed, enteredStepE,
                    access, gret, dirVars >>

\* lines 27-38: the service-account bind, then the check of the login filter
BindServiceAccount ==
    /\ pc = "bindServiceAccount"
    /\ UNCHANGED otherVars
    /\ \E out \in BindOutcomes :
          /\ log' = Append(log, Op("bind", "serviceAccount", out, <<>>))
          /\ IF out # "ok"
             THEN LoginReturn(EmptyPrincipal, <<>>, ServerError)
             ELSE IF FilterRejected(config.UserLoginFilter)
             THEN LoginReturn(EmptyPrincipal, <<>>, InvalidOption)
             ELSE pc' = "searchUser" /\ UNCHANGED ret
    /\ UNCHANGED << callVars, resultVars, localVars, lastSearch, absorbed, enteredStepE,
                    access, gret, dirVars >>

\* lines 40-65: the user search; exactly one entry is required
SearchUser ==
    /\ pc = "searchUser"
    /\ UNCHANGED otherVars
    /\ \E out \in SearchOutcomes, n \in 0..MaxEntries :
       \E entries \in SearchResults(n) :
          /\ log' = Append(log, Op("search", "user", out, <<>>))
          /\ IF UserSearchFails(out, Len(entries))
             THEN /\ LoginReturn(EmptyPrincipal, <<>>, Unauthorized)
                  /\ result' = IF out = "ok" THEN entries ELSE <<>>
             ELSE /\ result' = entries
                  /\ pc' = "bindUser"
                  /\ UNCHANGED ret
    /\ UNCHANGED << callVars, opResult, localVars, lastSearch, absorbed, enteredStepE,
                    access, gret, dirVars >>

\* lines 67-75: the bind as the found user
BindUser ==
    /\ pc = "bindUser"
    /\ UNCHANGED otherVars
    /\ \E out \in BindOutcomes :
          /\ log' = Append(log, Op("bind", "user", out, <<result[1].DN>>))
          /\ IF out # "ok"
             THEN LoginReturn(EmptyPrincipal, <<>>, BindUserError(out))
             ELSE /\ pc' = IF config.SearchUsingServiceAccount
                           THEN "rebindServiceAccount" ELSE "searchOperational"
                  /\ UNCHANGED ret
    /\ UNCHANGED << callVars, resultVars, localVars, lastSearch, absorbed, enteredStepE,
                    access, gret, dirVars >>

\* lines 77-82: the service-account bind for the reads that follow
RebindServiceAccount ==
    /\ pc = "rebindServiceAccount"
    /\ UNCHANGED otherVars
    /\ \E out \in BindOutcomes :
          /\ log' = Append(log, Op("bind", "serviceAccount", out, <<>>))
          /\ IF out # "ok"
             THEN LoginReturn(EmptyPrincipal, <<>>, Unauthorized)
             ELSE pc' = "searchOperational" /\ UNCHANGED ret
    /\ UNCHANGED << callVars, resultVars, localVars, lastSearch, absorbed, enteredStepE,
                    access, gret, dirVars >>

\* lines 84-97: the operational attributes of the user's entry
SearchOperational ==
    /\ pc = "searchOperational"
    /\ UNCHANGED otherVars
    /\ \E out \in SearchOutcomes :
       \E entries \in {<<>>} \cup {<<e>> : e \in OpEntries(result[1])} :
          /\ log' = Append(log, Op("search", "operational", out, <<result[1].DN>>))
          /\ IF out # "ok" \/ Len(entries) < 1
             THEN /\ LoginReturn(EmptyPrincipal, <<>>, Unauthorized)
                  /\ opResult' = <<>>
             ELSE /\ opResult' = entries
                  /\ pc' = "getPrincipals"
                  /\ UNCHANGED ret
    /\ UNCHANGED << callVars, result, localVars, lastSearch, absorbed, enteredStepE,
                    access, gret, dirVars >>

\* ------------------------------------------ getPrincipalsFromSearchResult
\* The group entries a reverse query matches: any set of groups when the
\* directory answers the query, and what is known of it (nothing) when the
\* query is not answered.
Matches(known, bindOut, searchOut) ==
    IF bindOut = "ok" /\ searchOut = "ok" THEN SUBSET Groups ELSE {known}

\* entry.GetAttributeValues(name), read from the operational snapshot when
\* the primary entry has no value (lines 135-138, 176-184)
AttributeOrOperational(primary, operational) ==
    IF Len(primary) = 0 THEN operational ELSE primary

\* lines 226-257: the traversal is entered, or the groups found are returned
Line226(gps, fallback) ==
    IF NestedTraversal(config.NestedGroupMembershipEnabled, GroupScope(provider), fallback)
    THEN /\ enteredStepE' = TRUE
         /\ IF Len(gps) = 0
            THEN GetPrincipalsReturn(userPrincipal, gps, NoError)
            ELSE pc' = "stepE" /\ UNCHANGED << gret, ret >>
    ELSE /\ GetPrincipalsReturn(userPrincipal, gps, NoError)
         /\ UNCHANGED enteredStepE

\* the check of the entry left out
PermissionCheckSkipped(entry) == TRUE

\* lines 516-521: p.permissionCheck(attributes, config), the answer of
\* ldap.HasPermission for the entry's attributes
PermissionCheck(entry) == entry.hasPermission

\* lines 125-156: the checks of the found entry and the user principal
GetPrincipals ==
    /\ pc = "getPrincipals"
    /\ UNCHANGED otherVars
    /\ LET entry == result[1]
           uma == AttributeOrOperational(entry.memberOf, opResult[1].memberOf)
           user == AttributesToPrincipal(entry.DN, UserScope(provider))
       IN  IF ~PermissionCheck(entry)
           THEN /\ GetPrincipalsReturn(EmptyPrincipal, <<>>, PlainError)
                /\ UNCHANGED << userMemberAttribute, userPrincipal >>
           ELSE IF ~entry.isUserClass
           THEN /\ GetPrincipalsReturn(EmptyPrincipal, <<>>, NoError)
                /\ userMemberAttribute' = uma
                /\ UNCHANGED userPrincipal
           ELSE /\ userMemberAttribute' = uma
                /\ userPrincipal' = user
                /\ pc' = IF 0 < Len(uma) THEN "stepB" ELSE "stepC"
                /\ UNCHANGED << gret, ret >>
    /\ i' = 0
    /\ UNCHANGED << callVars, log, resultVars, groupPrincipals, nestedGroupPrincipals,
                    groupMap, freeipaNonEntrydnApproach, lastSearch, absorbed, enteredStepE,
                    access, dirVars >>

\* the positions of userMemberAttribute (1-based) the batch starting at
\* offset i covers: userMemberAttribute[i:min(i+50, len(userMemberAttribute))]
BatchBounds(offset, len) == << offset + 1, Min(offset + BatchSize, len) >>

\* line 158: the offset of the next batch
NextOffset(offset) == offset + BatchSize

\* line 170: the groups a batch query returns are added to the list
AppendBatch(gps, found) == gps \o found

\* lines 158-174: one iteration of the batch loop (Step B)
StepB ==
    /\ pc = "stepB"
    /\ UNCHANGED otherVars
    /\ i < Len(userMemberAttribute)
    /\ \E bindOut \in BindOutcomes, searchOut \in PagedOutcomes :
          LET bounds == BatchBounds(i, Len(userMemberAttribute))
              batchGroupDN == SubSeq(userMemberAttribute, bounds[1], bounds[2])
              r == SearchLdap(GroupsByDN(Range(batchGroupDN)), GroupScope(provider),
                              "batch", bounds, bindOut, searchOut)
              gps == AppendBatch(groupPrincipals, r.principals)
          IN  /\ log' = log \o r.ops
              /\ lastSearch' = SearchSummary(r)
              /\ absorbed' = (absorbed \/ Absorbed(r))
              /\ groupPrincipals' = gps
              /\ IF r.err # NoError
                 THEN GetPrincipalsReturn(userPrincipal, gps, r.err) /\ UNCHANGED i
                 ELSE /\ i' = NextOffset(i)
                      /\ pc' = IF i' < Len(userMemberAttribute) THEN "stepB" ELSE "stepC"
                      /\ UNCHANGED << gret, ret >>
    /\ UNCHANGED << callVars, resultVars, userPrincipal, nestedGroupPrincipals, groupMap,
                    freeipaNonEntrydnApproach, userMemberAttribute, enteredStepE,
                    access, dirVars >>

\* the groups of the reverse query added without the pass against the list
MergeReverseAppendAll(gps, found) == gps \o found

\* lines 196-197: the groups of the reverse query not yet in the list are
\* added to it
MergeReverse(gps, found) ==
    gps \o FindNonDuplicateBetweenGroupPrincipals(found, gps, <<>>)

\* the fallback query issued whatever Steps A-C found
NeedsFallbackAlways(gps) == TRUE

\* line 203: the fallback query is needed when no group was found
NeedsFallback(gps) == Len(gps) = 0

\* line 190: the reverse query asks for groupMemberUserAttribute[0]
ReverseKey(gmu) == << gmu[1] >>

\* lines 176-203 and 226: the reverse query by uid (Step C), then the choice
\* between the fallback, the traversal and the return
StepC ==
    /\ pc = "stepC"
    /\ UNCHANGED otherVars
    /\ LET gmu == AttributeOrOperational(result[1].groupMemberUser,
                                         opResult[1].groupMemberUser)
       IN  IF Len(gmu) > 0
           THEN \E bindOut \in BindOutcomes, searchOut \in PagedOutcomes :
                \E found \in Matches(dirByUid, bindOut, searchOut) :
                   LET r == SearchLdap(found, GroupScope(provider), "reverse",
                                       ReverseKey(gmu), bindOut, searchOut)
                       gps == MergeReverse(groupPrincipals, r.principals)
                   IN  /\ dirByUid' = found
                       /\ log' = log \o r.ops
                       /\ lastSearch' = SearchSummary(r)
                       /\ absorbed' = (absorbed \/ Absorbed(r))
                       /\ groupPrincipals' = gps
                       /\ IF r.err # NoError
                          THEN /\ GetPrincipalsReturn(userPrincipal, gps, r.err)
                               /\ UNCHANGED enteredStepE
                          ELSE IF NeedsFallback(gps)
                          THEN /\ pc' = "stepD"
                               /\ UNCHANGED << gret, ret, enteredStepE >>
                          ELSE Line226(gps, FALSE)
           ELSE /\ lastSearch' = NoSearch
                /\ UNCHANGED << dirByUid, log, groupPrincipals, absorbed >>
                /\ IF NeedsFallback(groupPrincipals)
                   THEN /\ pc' = "stepD"
                        /\ UNCHANGED << gret, ret, enteredStepE >>
                   ELSE Line226(groupPrincipals, FALSE)
    /\ UNCHANGED << callVars, resultVars, userPrincipal, nestedGroupPrincipals, groupMap,
                    freeipaNonEntrydnApproach, userMemberAttribute, i, access,
                    dirByUserDN, dirParents >>

\* lines 203-226: the fallback query by the user's DN (Step D)
StepD ==
    /\ pc = "stepD"
    /\ UNCHANGED otherVars
    /\ \E bindOut \in BindOutcomes, searchOut \in PagedOutcomes :
       \E found \in Matches(dirByUserDN, bindOut, searchOut) :
          LET r == SearchLdap(found, GroupScope(provider), "fallback",
                              <<result[1].DN>>, bindOut, searchOut)
          IN  /\ dirByUserDN' = found
              /\ log' = log \o r.ops
              /\ lastSearch' = SearchSummary(r)
              /\ absorbed' = (absorbed \/ Absorbed(r))
              /\ groupPrincipals' = r.principals
              /\ IF r.err # NoError
                 THEN /\ GetPrincipalsReturn(userPrincipal, r.principals, r.err)
                      /\ UNCHANGED << freeipaNonEntrydnApproach, enteredStepE >>
                 ELSE /\ freeipaNonEntrydnApproach' = TRUE
                      /\ Line226(r.principals, TRUE)
    /\ UNCHANGED << callVars, resultVars, userPrincipal, nestedGroupPrincipals, groupMap,
                    userMemberAttribute, i, access, dirByUid, dirParents >>

RECURSIVE GatherAll(_, _, _, _, _)
\* lines 247-252: the range loop over the groups found; it stops at the
\* first call that fails
GatherAll(gps, scope, graph, failAt, st) ==
    IF gps = <<>> \/ st.err # NoError THEN st
    ELSE GatherAll(Tail(gps), scope, graph, failAt,
                   GatherParentGroups(Head(gps), scope, graph, failAt, st))

\* lines 253-254: the parent groups found are added to the list
MergeNested(gps, nested) ==
    gps \o FindNonDuplicateBetweenGroupPrincipals(nested, gps, <<>>)

\* lines 227-257: the parent-group traversal (Step E)
StepE ==
    /\ pc = "stepE"
    /\ UNCHANGED otherVars
    /\ \E graph \in GroupGraphs, failAt \in 0..NGroups :
          LET st == GatherAll(groupPrincipals, GroupScope(provider), graph, failAt,
                              [ groupMap |-> groupMap,
                                nested |-> nestedGroupPrincipals,
                                ops |-> <<>>, err |-> NoError ])
          IN  /\ dirParents' = graph
              /\ log' = log \o st.ops
              /\ groupMap' = st.groupMap
              /\ nestedGroupPrincipals' = st.nested
              /\ IF st.err # NoError
                 THEN /\ GetPrincipalsReturn(userPrincipal, groupPrincipals, NoError)
                      /\ UNCHANGED groupPrincipals
                 ELSE /\ groupPrincipals' = MergeNested(groupPrincipals, st.nested)
                      /\ GetPrincipalsReturn(userPrincipal, groupPrincipals', NoError)
    /\ lastSearch' = NoSearch
    /\ UNCHANGED << callVars, resultVars, userPrincipal, freeipaNonEntrydnApproach,
                    userMemberAttribute, i, absorbed, enteredStepE, access,
                    dirByUid, dirByUserDN >>

\* a negative answer reported as Unauthorized
AccessResultUnauthorized(out, user, groups) ==
    IF out = "error" THEN [user |-> EmptyPrincipal, groups |-> <<>>, err |-> PlainError]
    ELSE IF out = "denied"
    THEN [user |-> EmptyPrincipal, groups |-> <<>>, err |-> Unauthorized]
    ELSE [user |-> user, groups |-> groups, err |-> NoError]

\* lines 104-112: what loginUser returns for the collaborator's answer
AccessResult(out, user, groups) ==
    IF out = "error" THEN [user |-> EmptyPrincipal, groups |-> <<>>, err |-> PlainError]
    ELSE IF out = "denied"
    THEN [user |-> EmptyPrincipal, groups |-> <<>>, err |-> PermissionDenied]
    ELSE [user |-> user, groups |-> groups, err |-> NoError]

\* lines 104-112: the access-control collaborator decides
CheckAccess ==
    /\ pc = "checkAccess"
    /\ UNCHANGED otherVars
    /\ lastSearch' = NoSearch
    /\ \E out \in AccessOutcomes :
          LET r == AccessResult(out, gret.user, gret.groups)
          IN  /\ access' = out
              /\ LoginReturn(r.user, r.groups, r.err)
    /\ UNCHANGED << callVars, log, resultVars, localVars, absorbed, enteredStepE,
                    gret, dirVars >>

\* ------------------------------------------------------------ getPrincipal
\* the scopes getPrincipal is called with: the provider's two and another
LookupScopes(pr) == {UserScope(pr), GroupScope(pr), "other_scope"}

\* the distinguished names looked up: the user's and a group's
LookupDNs == {UserDN, 1}

\* getPrincipal returns (principal, err); a nil principal is the empty one
LookupReturn(ps, e) ==
    /\ oret' = LookupReturned(ps, e)
    /\ opc' = "done"

\* lines 304-322: the service-account bind failed
GetPrincipalBindFailed(out, enabled, scope, dn) ==
    IF out = "invalidCredentials" /\ enabled
    THEN LookupReturned(<< [name |-> PrincipalName(scope, dn)] >>, NoError)
    ELSE LookupReturned(<<>>, PlainError)

\* lines 338-349: the error of the base-object search, or of its entry count
GetPrincipalSearchError(out, nEntries) ==
    IF out = "noSuchObject" THEN NotFound
    ELSE IF out # "ok" THEN ServerError
    ELSE IF nEntries < 1 THEN PlainError
    ELSE IF nEntries > 1 THEN PlainError
    ELSE NoError

\* lines 260-322: the checks of the arguments, the connection and the
\* service-account bind
GetPrincipalBind ==
    /\ pc = "idle"
    /\ opc = "idle"
    /\ \E pr \in {"openldap", "freeipa"} :
       \E scope \in LookupScopes(pr), dn \in LookupDNs, enabled \in BOOLEAN,
          parsed \in BOOLEAN, accepted \in BOOLEAN, connected \in BOOLEAN,
          out \in BindOutcomes :
          /\ provider' = pr
          /\ ocall' = [op |-> "getPrincipal", scope |-> scope, dn |-> dn,
                       enabled |-> enabled]
          /\ IF scope \notin {UserScope(pr), GroupScope(pr)}
             THEN LookupReturn(<<>>, PlainError) /\ UNCHANGED log
             ELSE IF ~parsed
             THEN LookupReturn(<<>>, PlainError) /\ UNCHANGED log
             ELSE IF ~accepted
             THEN LookupReturn(<<>>, NoError) /\ UNCHANGED log
             ELSE IF ~connected
             THEN LookupReturn(<<>>, PlainError) /\ UNCHANGED log
             ELSE /\ log' = Append(log, Op("bind", "serviceAccount", out, <<>>))
                  /\ IF out # "ok"
                     THEN LET r == GetPrincipalBindFailed(out, enabled, scope, dn)
                          IN  LookupReturn(r.principals, r.err)
                     ELSE opc' = "gpSearch" /\ UNCHANGED oret
    /\ UNCHANGED << pc, credentials, config, resultVars, localVars, lastSearch, absorbed,
                    enteredStepE, access, gret, ret, dirVars >>

\* lines 324-362: the base-object search by the distinguished name
GetPrincipalSearch ==
    /\ opc = "gpSearch"
    /\ \E out \in PagedOutcomes, n \in 0..MaxEntries, permitted \in BOOLEAN :
          LET entries == IF out = "ok"
                         THEN [k \in 1..n |-> [DN |-> ocall.dn, hasPermission |-> permitted]]
                         ELSE <<>>
              err == GetPrincipalSearchError(out, Len(entries))
          IN  /\ log' = Append(log, Op("search", "principal", out, <<ocall.dn>>))
              /\ result' = entries
              /\ IF err # NoError
                 THEN LookupReturn(<<>>, err)
                 ELSE IF ~PermissionCheck(entries[1])
                 THEN LookupReturn(<<>>, PlainError)
                 ELSE LookupReturn(<< AttributesToPrincipal(ocall.dn, ocall.scope) >>,
                                   NoError)
    /\ UNCHANGED << pc, callVars, ocall, opResult, localVars, lastSearch, absorbed,
                    enteredStepE, access, gret, ret, dirVars >>

\* ------------------------------------------------- searchUser, searchGroup
\* the entries a search by name prefix matches, when the query is answered
LookupMatches(candidates, bindOut, searchOut) ==
    IF bindOut = "ok" /\ searchOut = "ok" THEN SUBSET candidates ELSE {{}}

\* lines 388-394 and 415-421: the error of a search filter that does not compile
SearchFilterError(kind) == PlainError

\* lines 387-439: searchUser and searchGroup; the filter override is
\* checked, then searchLdap runs the query
SearchCall(kind, pr, filter, found, bindOut, searchOut) ==
    /\ provider' = pr
    /\ ocall' = [op |-> kind, filter |-> filter]
    /\ IF FilterRejected(filter)
       THEN /\ LookupReturn(<<>>, SearchFilterError(kind))
            /\ UNCHANGED << log, lastSearch, absorbed >>
       ELSE LET scope == IF kind = "searchUser" THEN UserScope(pr) ELSE GroupScope(pr)
                r == SearchLdap(found, scope, kind, <<>>, bindOut, searchOut)
            IN  /\ log' = log \o r.ops
                /\ lastSearch' = SearchSummary(r)
                /\ absorbed' = (absorbed \/ Absorbed(r))
                /\ LookupReturn(r.principals, r.err)
    /\ UNCHANGED << pc, credentials, config, resultVars, localVars, enteredStepE,
                    access, gret, ret, dirVars >>

\* lines 387-412
SearchUserCall ==
    /\ pc = "idle"
    /\ opc = "idle"
    /\ \E pr \in {"openldap", "freeipa"}, filter \in LoginFilters,
          bindOut \in BindOutcomes, searchOut \in PagedOutcomes :
       \E found \in LookupMatches({UserDN, 0 - 1}, bindOut, searchOut) :
          SearchCall("searchUser", pr, filter, found, bindOut, searchOut)

\* lines 414-439
SearchGroupCall ==
    /\ pc = "idle"
    /\ opc = "idle"
    /\ \E pr \in {"openldap", "freeipa"}, filter \in LoginFilters,
          bindOut \in BindOutcomes, searchOut \in PagedOutcomes :
       \E found \in LookupMatches(Groups, bindOut, searchOut) :
          SearchCall("searchGroup", pr, filter, found, bindOut, searchOut)

Next ==
    \/ LoginUser
    \/ BindServiceAccount
    \/ SearchUser
    \/ BindUser
    \/ RebindServiceAccount
    \/ SearchOperational
    \/ GetPrincipals
    \/ StepB
    \/ StepC
    \/ StepD
    \/ StepE
    \/ CheckAccess
    \/ GetPrincipalBind
    \/ GetPrincipalSearch
    \/ SearchUserCall
    \/ SearchGroupCall

Spec == Init /\ [][Next]_vars

\* ================================================================ claims
LogIndex == 1..Len(log)

IsParentQuery(e) == e.op = "searchPaged" /\ e.arg = "parents"
IsBatchQuery(e)  == e.op = "searchPaged" /\ e.arg = "batch"
IsSearch(e)      == e.op \in {"search", "searchPaged"}
IsUserBind(e)    == e.op = "bind" /\ e.arg = "user"

ParentQueries == SelectSeq(log, IsParentQuery)
BatchQueries  == SelectSeq(log, IsBatchQuery)

GroupName(g) == PrincipalName(GroupScope(provider), g)

\* Steps A-C found nothing, the fallback query returned exactly one group,
\* nested resolution is disabled, and getPrincipalsFromSearchResult returned
FallbackOneGroup ==
    /\ gret.returned /\ gret.err = NoError
    /\ freeipaNonEntrydnApproach
    /\ ~config.NestedGroupMembershipEnabled
    /\ Cardinality(dirByUserDN) = 1

TheFallbackGroup == CHOOSE g \in Groups : g \in dirByUserDN

\* C1 as stated: when getPrincipalsFromSearchResult returns groups, the
\* parent-group traversal (Step E) was performed exactly when nested-group
\* resolution is enabled AND (the group scope is openldap_group OR the
\* fallback was used); with no group from Steps A-C, one group from the
\* fallback and nested resolution disabled, the result is exactly that group
\* and no parent-group query is issued.
C1_Original ==
    /\ (gret.returned /\ gret.err = NoError /\ Len(gret.groups) > 0) =>
         (Len(ParentQueries) > 0 <=>
            (config.NestedGroupMembershipEnabled
               /\ (GroupScope(provider) = "openldap_group" \/ freeipaNonEntrydnApproach)))
    /\ FallbackOneGroup =>
         /\ gret.groups = << [name |-> GroupName(TheFallbackGroup)] >>
         /\ Len(ParentQueries) = 0

\* C2 as stated: the group list a successful loginUser returns holds no two
\* principals with the same id.
C2_NoDuplicateGroups ==
    (pc = "done" /\ ret.err = NoError) => NoDuplicates(Names(ret.groups))

CeilDiv(n, d) == (n + d - 1) \div d

\* C3 as stated: when Step B has run to its end with every batch query
\* answered, the list of n DNs was split into ceil(n/50) consecutive batches
\* of at most 50, one search per batch, every position in exactly one batch,
\* and the accumulated groups are those of one query over all n DNs, each
\* once.
C3_Batching ==
    (pc = "stepC" /\ ~absorbed) =>
       LET n == Len(userMemberAttribute)
           b == BatchQueries
       IN  /\ Len(b) = CeilDiv(n, 50)
           /\ \A k \in 1..Len(b) :
                 /\ b[k].key[1] = 50 * (k - 1) + 1
                 /\ b[k].key[2] = Min(50 * k, n)
                 /\ b[k].key[2] - b[k].key[1] + 1 <= 50
           /\ \A pos \in 1..n :
                 Cardinality({k \in 1..Len(b) :
                                 b[k].key[1] <= pos /\ pos <= b[k].key[2]}) = 1
           /\ NoDuplicates(Names(groupPrincipals))
           /\ Range(Names(groupPrincipals))
                = {GroupName(g) : g \in GroupsByDN(Range(userMemberAttribute))}

\* C4 as stated: on every group graph the traversal of Step E ends, and each
\* group id is at most once in the list it leaves.
C4_TraversalNoDuplicates ==
    (enteredStepE /\ gret.returned /\ gret.err = NoError)
       => NoDuplicates(Names(gret.groups))

\* the user search was answered
UserSearchAnswered ==
    \E k \in LogIndex : log[k].op = "search" /\ log[k].arg = "user" /\ log[k].out = "ok"

\* C5: when the user search returns no entry or more than one, loginUser has
\* returned Unauthorized (not ServerError) and no bind as the user was
\* attempted.
C5_AmbiguousUserUnauthorized ==
    (UserSearchAnswered /\ Len(result) # 1) =>
       /\ pc = "done"
       /\ ret = Returned(EmptyPrincipal, <<>>, Unauthorized)
       /\ \A k \in LogIndex : ~IsUserBind(log[k])

\* C5 witness: the user search returned two entries
C5_Witness ==
    /\ UserSearchAnswered
    /\ Len(result) = 2
    /\ ret.err = Unauthorized

\* C6: a failed bind as the found user ends the call: Unauthorized exactly
\* when the error is invalid credentials, ServerError otherwise, and no
\* operation follows the bind.
C6_BindFailure ==
    \A k \in LogIndex :
       (IsUserBind(log[k]) /\ log[k].out # "ok") =>
          /\ k = Len(log)
          /\ pc = "done"
          /\ ret.user = EmptyPrincipal /\ ret.groups = <<>>
          /\ (ret.err = Unauthorized <=> log[k].out = "invalidCredentials")
          /\ (log[k].out # "invalidCredentials" => ret.err = ServerError)

\* C6 witness: the bind as the user failed with another error
C6_Witness ==
    /\ Len(log) > 0
    /\ IsUserBind(log[Len(log)])
    /\ log[Len(log)].out = "other"
    /\ ret.err = ServerError

InvalidLoginFilter ==
    /\ pc # "idle"
    /\ config.UserLoginFilter # <<>>
    /\ ~CompileFilterOK(config.UserLoginFilter)

\* C7 as stated: with a syntactically invalid UserLoginFilter loginUser fails
\* with InvalidOption and no search was issued.
C7_Original ==
    (InvalidLoginFilter /\ pc = "done") =>
       /\ ret.err = InvalidOption
       /\ \A k \in LogIndex : ~IsSearch(log[k])

\* C7 (amended): with a syntactically invalid UserLoginFilter loginUser
\* issues no search and fails: with InvalidOption exactly when the password
\* is not empty and the service-account bind succeeded, with MissingRequired
\* when the password is empty, and with the bind's error otherwise.
C7_InvalidFilter ==
    InvalidLoginFilter =>
       /\ \A k \in LogIndex : ~IsSearch(log[k])
       /\ pc \in {"bindServiceAccount", "done"}
       /\ pc = "done" =>
            /\ ret.user = EmptyPrincipal /\ ret.groups = <<>>
            /\ ret.err # NoError
            /\ (ret.err = InvalidOption
                  <=> (credentials.Password # "" /\ Len(log) = 1 /\ log[1].out = "ok"))
            /\ (credentials.Password = "" <=> ret.err = MissingRequired)

\* C7 witness: the filter is rejected after the service-account bind
C7_Witness ==
    /\ InvalidLoginFilter
    /\ ret.err = InvalidOption
    /\ Len(log) = 1 /\ log[1].op = "bind" /\ log[1].out = "ok"

\* C8: loginUser called with an empty password returns MissingRequired and
\* issues no bind and no search.
C8_EmptyPassword ==
    (pc # "idle" /\ credentials.Password = "") =>
       /\ pc = "done"
       /\ ret = Returned(EmptyPrincipal, <<>>, MissingRequired)
       /\ log = <<>>

\* C8 witness: a call with an empty password has returned
C8_Witness ==
    /\ pc = "done"
    /\ credentials.Password = ""
    /\ ret.err = MissingRequired

\* C9: when the user is authenticated, the groups are resolved and the
\* access-control collaborator answers not-allowed, loginUser returns
\* PermissionDenied with an empty principal and no groups.
C9_PermissionDenied ==
    access = "denied" =>
       /\ pc = "done"
       /\ gret.returned /\ gret.err = NoError
       /\ \E k \in LogIndex : IsUserBind(log[k]) /\ log[k].out = "ok"
       /\ ret = Returned(EmptyPrincipal, <<>>, PermissionDenied)

\* C9 witness: access is denied to a user with resolved groups
C9_Witness ==
    /\ access = "denied"
    /\ gret.user # EmptyPrincipal
    /\ Len(gret.groups) > 0
    /\ ret.err = PermissionDenied

\* C10 as stated: a loginUser call that returns no error returns the user
\* principal <userScope>://<DN> of the entry found, never an empty one.
C10_SuccessHasUser ==
    (pc = "done" /\ ret.err = NoError) =>
       ret.user = [name |-> PrincipalName(UserScope(provider), result[1].DN)]

\* C11 as stated: in searchLdap a paged search that fails with no-such-object
\* yields zero principals and no error, and a paged search that fails in any
\* other way (another LDAP result code, or an error that is no LDAP error)
\* makes searchLdap return an error.
C11_PagedSearchErrors ==
    /\ lastSearch.outcome = "noSuchObject" =>
          (lastSearch.principals = <<>> /\ lastSearch.err = NoError)
    /\ lastSearch.outcome \in {"ldapError", "netError"} => lastSearch.err # NoError

\* the base-object search of getPrincipal found no entry
LookupFoundNothing ==
    /\ ocall.op = "getPrincipal"
    /\ opc = "done"
    /\ \E k \in LogIndex :
          /\ log[k].op = "search" /\ log[k].arg = "principal"
          /\ \/ log[k].out = "noSuchObject"
             \/ log[k].out = "ok" /\ Len(result) = 0

\* C12 as stated: a getPrincipal lookup that finds no matching entry (the
\* search fails with no-such-object, or succeeds with zero entries) returns
\* a NotFound error.
C12_LookupNotFound ==
    LookupFoundNothing => (oret.principals = <<>> /\ oret.err = NotFound)

\* searchUser or searchGroup was called with a filter override that does
\* not compile
InvalidSearchFilter ==
    /\ ocall.op \in {"searchUser", "searchGroup"}
    /\ ocall.filter # <<>>
    /\ ~CompileFilterOK(ocall.filter)

\* C13 as stated: searchUser and searchGroup reject a syntactically invalid
\* search-filter override with an InvalidOption error, before any bind or
\* search is issued on the connection.
C13_InvalidSearchFilter ==
    InvalidSearchFilter =>
       /\ opc = "done"
       /\ oret.principals = <<>>
       /\ oret.err = InvalidOption
       /\ log = <<>>

IsReverseQuery(e) == e.op = "searchPaged" /\ e.arg = "reverse"

\* C14: Step C queries by the first value of the group-member-user
\* attribute only, once, and merges first-seen-wins: the list Step B left is
\* a prefix of the new list, no group already in it is added again, and
\* every group only the reverse query returned is appended exactly once.
C14_ReverseMerge ==
    [][ (pc = "stepC" /\ lastSearch'.outcome # "none") =>
           LET gmu == AttributeOrOperational(result[1].groupMemberUser,
                                             opResult[1].groupMemberUser)
               old == groupPrincipals
               new == groupPrincipals'
               added == SubSeq(new, Len(old) + 1, Len(new))
               issued == SelectSeq(SubSeq(log', Len(log) + 1, Len(log')), IsReverseQuery)
           IN  /\ Len(issued) <= 1
               /\ \A k \in 1..Len(issued) : issued[k].key = << gmu[1] >>
               /\ (lastSearch'.outcome \in {"ok", "noSuchObject", "netError"}
                      => Len(issued) = 1)
               /\ Len(new) >= Len(old)
               /\ SubSeq(new, 1, Len(old)) = old
               /\ NoDuplicates(Names(added))
               /\ Range(added) = {q \in Range(lastSearch'.principals) :
                                     q.name \notin Range(Names(old))}
      ]_vars

\* C14 witness: the attribute has two values, the reverse query for the first
\* returned a group Step B had found and a group it had not
C14_Witness ==
    /\ gret.returned /\ gret.err = NoError
    /\ ~absorbed
    /\ Len(result) = 1 /\ Len(result[1].groupMemberUser) = 2
    /\ \E k \in LogIndex : IsReverseQuery(log[k]) /\ log[k].key = << "u2" >>
    /\ dirByUid \cap GroupsByDN(Range(userMemberAttribute)) # {}
    /\ dirByUid \ GroupsByDN(Range(userMemberAttribute)) # {}
    /\ Len(gret.groups) >= Cardinality(dirByUid)

IsFallbackQuery(e) == e.op = "searchPaged" /\ e.arg = "fallback"

FallbackQueries == SelectSeq(log, IsFallbackQuery)

\* C15: the fallback query of Step D is made exactly when Steps A-C ended
\* without error and left the group list empty; it is made once, asks for
\* the user's own DN, and fallback mode is set exactly when it returns
\* without error, by no other step.
C15_FallbackQuery ==
    [][ /\ pc = "stepC" =>
             (pc' = "stepD" <=> (lastSearch'.err = NoError /\ Len(groupPrincipals') = 0))
        /\ pc' = "stepD" => pc = "stepC"
        /\ pc = "stepD" =>
             /\ pc' # "stepD"
             /\ Len(groupPrincipals) = 0
             /\ FallbackQueries = <<>>
             /\ lastSearch'.outcome # "none"
             /\ (lastSearch'.outcome # "bindFailed" =>
                   /\ IsFallbackQuery(log'[Len(log')])
                   /\ log'[Len(log')].key = << result[1].DN >>)
             /\ (freeipaNonEntrydnApproach' <=> lastSearch'.err = NoError)
        /\ pc # "stepD" =>
             /\ freeipaNonEntrydnApproach' = freeipaNonEntrydnApproach
             /\ SelectSeq(log', IsFallbackQuery) = FallbackQueries
        /\ Len(SelectSeq(log', IsFallbackQuery)) <= 1
      ]_vars

\* C15 witness: the fallback query was issued, found groups, and fallback
\* mode is set
C15_Witness ==
    /\ freeipaNonEntrydnApproach
    /\ Len(FallbackQueries) = 1
    /\ FallbackQueries[1].out = "ok"
    /\ Len(groupPrincipals) > 1

\* C16: when the group query of a Step B batch or of Step C fails,
\* getPrincipalsFromSearchResult returns that error with the groups of the
\* earlier queries, loginUser returns the error with an empty principal and
\* no groups, the access-control collaborator is not called, and nothing
\* more is issued on the connection.
C16_GroupQueryFailure ==
    [][ /\ (pc \in {"stepB", "stepC"} /\ lastSearch'.err # NoError) =>
             /\ groupPrincipals' = groupPrincipals
             /\ gret' = Returned(userPrincipal, groupPrincipals, lastSearch'.err)
             /\ ret' = Returned(EmptyPrincipal, <<>>, lastSearch'.err)
             /\ pc' = "done"
             /\ access' = "none"
             /\ log'[Len(log')].out # "ok"
             /\ ~enteredStepE' /\ ~freeipaNonEntrydnApproach'
        /\ pc = "done" => vars' = vars
      ]_vars

\* C16 witness: the second batch query failed after the first one found
\* groups
C16_Witness ==
    /\ pc = "done"
    /\ ret.err = PlainError
    /\ gret.returned /\ gret.err = PlainError
    /\ gret.user # EmptyPrincipal
    /\ Len(gret.groups) > 0
    /\ Len(BatchQueries) = 2
    /\ BatchQueries[1].out = "ok" /\ BatchQueries[2].out = "error"
    /\ access = "none"

\* a parent-group query of Step E failed
TraversalFailed == \E k \in 1..Len(ParentQueries) : ParentQueries[k].out = "error"

\* C17 as stated: when a traversal call of Step E fails,
\* getPrincipalsFromSearchResult returns a nil error with the groups found by
\* Steps A-D plus every parent group the traversal had discovered before the
\* failure.
C17_TraversalFailure ==
    (TraversalFailed /\ gret.returned) =>
       /\ gret.err = NoError
       /\ Range(Names(gret.groups))
            = Range(Names(groupPrincipals)) \cup Range(Names(nestedGroupPrincipals))
       /\ SubSeq(gret.groups, 1, Len(groupPrincipals)) = groupPrincipals

\* a paged search that searchLdap issued
IsSearchLdapQuery(e) ==
    /\ e.op = "searchPaged"
    /\ e.arg \in {"batch", "reverse", "fallback", "searchUser", "searchGroup"}

\* C18: every paged search searchLdap issues comes right after a successful
\* bind as the service account on the connection, and when that bind fails
\* searchLdap returns an error and issues no search.
C18_BindBeforeSearch ==
    /\ \A k \in LogIndex :
          IsSearchLdapQuery(log[k]) =>
             /\ k > 1
             /\ log[k - 1] = Op("bind", "serviceAccount", "ok", <<>>)
    /\ lastSearch.outcome = "bindFailed" =>
          /\ lastSearch.err # NoError
          /\ lastSearch.principals = <<>>
          /\ log[Len(log)].op = "bind"
          /\ log[Len(log)].arg = "serviceAccount"
          /\ log[Len(log)].out # "ok"

\* C18 witness: the connection was bound as the user and a later paged
\* search follows a bind as the service account
C18_Witness ==
    \E j, k \in LogIndex :
       /\ j < k
       /\ IsUserBind(log[j]) /\ log[j].out = "ok"
       /\ IsSearchLdapQuery(log[k])
       /\ log[k - 1].op = "bind" /\ log[k - 1].arg = "serviceAccount"
       /\ ~config.SearchUsingServiceAccount

UserBinds == {k \in LogIndex : IsUserBind(log[k])}

\* C19: loginUser returns success only after a successful bind with the DN
\* of the entry found and the password; the bind as the user is attempted at
\* most once, and only after a successful service-account bind and a
\* successful user search.
C19_UserBindRequired ==
    /\ (pc = "done" /\ ret.err = NoError) =>
          \E k \in UserBinds : log[k].out = "ok" /\ log[k].key = << result[1].DN >>
    /\ Cardinality(UserBinds) <= 1
    /\ \A k \in UserBinds :
          /\ Len(result) = 1
          /\ \E b, j \in LogIndex :
                /\ b < j /\ j < k
                /\ log[b] = Op("bind", "serviceAccount", "ok", <<>>)
                /\ log[j] = Op("search", "user", "ok", <<>>)

\* C19 witness: a login that succeeded with a user principal
C19_Witness ==
    /\ pc = "done"
    /\ ret.err = NoError
    /\ ret.user # EmptyPrincipal
    /\ \E k \in UserBinds : log[k].out = "ok"

\* the successful binds before position k of the log
BindsBefore(k) == {j \in 1..(k - 1) : log[j].op = "bind" /\ log[j].out = "ok"}

\* C20: when a parent-group query of Step E is issued, the latest successful
\* bind on the connection is one as the service account.
C20_TraversalBoundAsServiceAccount ==
    \A k \in LogIndex :
       IsParentQuery(log[k]) =>
          /\ BindsBefore(k) # {}
          /\ LET last == CHOOSE j \in BindsBefore(k) : \A h \in BindsBefore(k) : h <= j
             IN  log[last].arg = "serviceAccount"

\* C20 witness: a parent-group query on the fallback path, without the
\* service-account bind of SearchUsingServiceAccount
C20_Witness ==
    /\ Len(ParentQueries) > 0
    /\ freeipaNonEntrydnApproach
    /\ ~config.SearchUsingServiceAccount
    /\ \E k \in UserBinds : log[k].out = "ok"

\* the entry loginUser found fails the enabled/permission check
EntryRefused ==
    /\ pc # "idle"
    /\ Len(result) = 1
    /\ ~result[1].hasPermission

\* C21: when the entry found fails permissionCheck,
\* getPrincipalsFromSearchResult returns an error before any group query is
\* issued, and loginUser returns an error with an empty principal and no
\* groups without calling the access-control collaborator.
C21_PermissionCheckFails ==
    EntryRefused =>
       /\ pc \in {"bindUser", "rebindServiceAccount", "searchOperational",
                  "getPrincipals", "done"}
       /\ \A k \in LogIndex : log[k].op # "searchPaged"
       /\ access = "none"
       /\ gret.returned =>
            /\ gret.err # NoError
            /\ gret.user = EmptyPrincipal /\ gret.groups = <<>>
            /\ ret = Returned(EmptyPrincipal, <<>>, gret.err)
       /\ pc = "done" =>
            /\ ret.err # NoError
            /\ ret.user = EmptyPrincipal /\ ret.groups = <<>>

\* C21 witness: the user was bound, the entry has group memberships, and
\* the permission check refused it
C21_Witness ==
    /\ EntryRefused
    /\ gret.returned
    /\ ret.err = PlainError
    /\ Len(result[1].memberOf) > 0
    /\ \E k \in LogIndex : IsUserBind(log[k]) /\ log[k].out = "ok"

=============================================================================
